---- MODULE Spec2Model ----
(***************************************************************************)
(* A model of the EVM portfolio engine:                                    *)
(*   - CoinGeckoClient (backend/core/coingecko.py): the price cache and    *)
(*     the async generator get_price_batches;                              *)
(*   - TokenRegistry (backend/core/token_registry.py): the lookup map,     *)
(*     the blacklist and resolve_token;                                    *)
(*   - fetch_all_txs (backend/core/etherscan.py): the incremental sync of  *)
(*     a wallet's history into its raw file;                               *)
(*   - TransactionParser.parse_file (backend/core/parser.py);              *)
(*   - analyze_portfolio (backend/main.py), which runs the three above.    *)
(* Each coroutine is cut at its suspension points (yield, await): the code *)
(* between two of them runs as one action, as on a single-threaded event   *)
(* loop.                                                                   *)
(***************************************************************************)
EXTENDS Integers, Sequences, FiniteSets, TLC

VARIABLES
    clock,          \* time.time()
    price_cache,    \* CoinGeckoClient.price_cache: id -> [price, ts]
    price_file,     \* the content of CACHE_FILE (data/prices/price_cache.json)
    gen,            \* the running get_price_batches generators, by caller
    reg,            \* TokenRegistry and its two files
    res,            \* the running resolve_token calls, by caller
    raw_file,       \* the content of data/raw_txs/{address}_{chain_id}.json
    fetch,          \* the running fetch_all_txs call
    app,            \* the running analyze_portfolio request
    parse           \* the parse_file call: its input file and its output

price_vars == <<price_cache, price_file, gen>>

registry_vars == <<reg, res>>

pipeline_vars == <<raw_file, fetch, app, parse>>

vars == <<clock, price_cache, price_file, gen, reg, res, raw_file, fetch, app, parse>>

----------------------------------------------------------------------------
(* Bounds and constants of the price engine *)

\* coingecko.py:11, seconds
PRICE_TTL == 600

\* coingecko.py:10 (2.5 s) and coingecko.py:123 (10 s), in tenths of a second
RATE_LIMIT_DELAY == 25
BACKOFF_DELAY == 100

\* coingecko.py:79 has chunk_size = 50; the model keeps the chunking and
\* scales the size so that a call of a few ids spans several chunks.
chunk_size == 2

\* the asset ids callers ask for
IdList == <<"bitcoin", "ethereum", "tether", "solana">>
Ids == {IdList[k] : k \in 1..Len(IdList)}

\* the prices the upstream quotes; a cache file loaded at start holds the
\* price 1
Prices == {2}

\* the instants at which the clock is read, from the start of the process on:
\* they give a cache entry written at 0 the ages 1 (fresh), 600 (exactly the
\* TTL) and 601 (past it), and one written at 1 the ages 0, 599 and 600
PriceInstants == {1, 600, 601}

\* the callers that hold a generator
Callers == {1}

----------------------------------------------------------------------------
(* Helpers: Python dicts are functions whose domain is the key set *)

EmptyDict == <<>>

\* d[k] = v
Put(d, k, v) == [x \in (DOMAIN d) \cup {k} |-> IF x = k THEN v ELSE d[x]]

\* del d[k]
Del(d, k) == [x \in (DOMAIN d) \ {k} |-> d[x]]

SeqSet(s) == {s[k] : k \in 1..Len(s)}

Min(a, b) == IF a < b THEN a ELSE b

\* every list without repetition of the elements of S: the orders in which
\* list(set(...)) may enumerate S
Orders(S) ==
    {s \in [1..Cardinality(S) -> S] : \A a, b \in 1..Cardinality(S) : a # b => s[a] # s[b]}

\* the elements of S in the order of IdList
RECURSIVE ListOf(_, _)
ListOf(S, k) ==
    IF k > Len(IdList) THEN <<>>
    ELSE (IF IdList[k] \in S THEN <<IdList[k]>> ELSE <<>>) \o ListOf(S, k + 1)

\* the token_ids lists of the callers: any set of ids, without a duplicate or
\* with its first id given twice. set(token_ids) forgets the order of the
\* list, so one list stands for its rearrangements; the order the generator
\* works in is chosen in Start.
InputLists ==
    {ListOf(S, 1) : S \in SUBSET Ids}
        \cup {<<ListOf(S, 1)[1]>> \o ListOf(S, 1) : S \in (SUBSET Ids) \ {{}}}

\* the price caches _load_cache_from_disk may find on disk at start: what
\* an earlier run priced, bitcoin at instant 0 and ethereum at instant 1, or
\* a part of it
LoadedEntries ==
    [tid \in {"bitcoin", "ethereum"} |->
        [price |-> 1, ts |-> IF tid = "bitcoin" THEN 0 ELSE 1]]
LoadedCaches == {[tid \in S |-> LoadedEntries[tid]] : S \in SUBSET DOMAIN LoadedEntries}

----------------------------------------------------------------------------
(* CoinGeckoClient: pure parts of get_price_batches *)

\* the boundary taken on the wrong side: an entry of age TTL still serves
IsFreshInclusive(cache, tid, now) ==
    /\ tid \in DOMAIN cache
    /\ now - cache[tid].ts <= PRICE_TTL

\* lines 60-66: a cache entry serves the id iff it exists and is younger than
\* the TTL at the time `now` of the partition
IsFresh(cache, tid, now) ==
    /\ tid \in DOMAIN cache
    /\ now - cache[tid].ts < PRICE_TTL

\* a partition that also fetches the ids the cache serves
RECURSIVE PartitionFetchesAll(_, _, _, _, _)
PartitionFetchesAll(unique_ids, k, cache, now, st) ==
    IF k > Len(unique_ids) THEN st
    ELSE LET tid == unique_ids[k] IN
         IF IsFresh(cache, tid, now)
         THEN PartitionFetchesAll(unique_ids, k + 1, cache, now,
                        [st EXCEPT !.cached_batch = Put(@, tid, cache[tid].price),
                                   !.to_fetch = Append(@, tid)])
         ELSE PartitionFetchesAll(unique_ids, k + 1, cache, now,
                        [st EXCEPT !.to_fetch = Append(@, tid)])

\* lines 55-66: the loop over unique_ids, from position k on; st is
\* [to_fetch, cached_batch]
RECURSIVE Partition(_, _, _, _, _)
Partition(unique_ids, k, cache, now, st) ==
    IF k > Len(unique_ids) THEN st
    ELSE LET tid == unique_ids[k] IN
         IF IsFresh(cache, tid, now)
         THEN Partition(unique_ids, k + 1, cache, now,
                        [st EXCEPT !.cached_batch = Put(@, tid, cache[tid].price)])
         ELSE Partition(unique_ids, k + 1, cache, now,
                        [st EXCEPT !.to_fetch = Append(@, tid)])

\* a slice one id too long: the chunk runs into the next one
ChunkAtOverlapping(to_fetch, i) ==
    SubSeq(to_fetch, i + 1, Min(i + chunk_size + 1, Len(to_fetch)))

\* line 82: to_fetch[i : i + chunk_size], i counted from 0
ChunkAt(to_fetch, i) == SubSeq(to_fetch, i + 1, Min(i + chunk_size, Len(to_fetch)))

\* the values a response body may hold for an id: {"usd": p}, an object
\* without "usd", or something that is no object (null, a number)
BodyValues ==
    {[kind |-> "usd", usd |-> p] : p \in Prices}
        \cup {[kind |-> "nousd", usd |-> 0], [kind |-> "bad", usd |-> 0]}

\* the bodies resp.json() may return for a chunk: any subset of its ids
Bodies(chunk) == UNION {[S -> BodyValues] : S \in SUBSET SeqSet(chunk)}

\* what client.get may produce: status 0 stands for a raised network error,
\* parsed = FALSE for a 200 whose body resp.json() cannot parse
Responses(chunk) ==
    {[status |-> 200, parsed |-> TRUE, body |-> b] : b \in Bodies(chunk)}
        \cup {[status |-> s, parsed |-> FALSE, body |-> EmptyDict] : s \in {200, 429, 500, 0}}

\* a loop that also caches the 0.0 it reports for an id the response omits
RECURSIVE FreshLoopCachesZero(_, _, _, _, _)
FreshLoopCachesZero(chunk, k, api_data, t, st) ==
    IF k > Len(chunk) THEN st
    ELSE LET tid == chunk[k] IN
         IF tid \in DOMAIN api_data /\ api_data[tid].kind = "bad"
         THEN [st EXCEPT !.raised = TRUE]
         ELSE LET price == IF tid \in DOMAIN api_data /\ api_data[tid].kind = "usd"
                           THEN api_data[tid].usd ELSE 0
              IN  FreshLoopCachesZero(chunk, k + 1, api_data, t,
                      [st EXCEPT !.batch = Put(@, tid, price),
                                 !.cache = Put(@, tid, [price |-> price, ts |-> t])])

\* lines 94-106: the loop over the chunk, from position k on; st is
\* [cache, batch, raised]. api_data[tid].get raises on a value that is no
\* object, after the ids before it were written to the cache.
RECURSIVE FreshLoop(_, _, _, _, _)
FreshLoop(chunk, k, api_data, t, st) ==
    IF k > Len(chunk) THEN st
    ELSE LET tid == chunk[k] IN
         IF tid \in DOMAIN api_data
         THEN IF api_data[tid].kind = "bad"
              THEN [st EXCEPT !.raised = TRUE]
              ELSE LET price == IF api_data[tid].kind = "usd"
                                THEN api_data[tid].usd ELSE 0
                   IN  FreshLoop(chunk, k + 1, api_data, t,
                           [st EXCEPT !.batch = Put(@, tid, price),
                                      !.cache = Put(@, tid, [price |-> price, ts |-> t])])
         ELSE FreshLoop(chunk, k + 1, api_data, t,
                        [st EXCEPT !.batch = Put(@, tid, 0)])

\* a stale batch that answers for every id of the chunk
StaleBatchPadded(chunk, cache) ==
    [tid \in SeqSet(chunk) |-> IF tid \in DOMAIN cache THEN cache[tid].price ELSE 0]

\* lines 116-119: the stale batch of a chunk
StaleBatch(chunk, cache) ==
    [tid \in SeqSet(chunk) \cap DOMAIN cache |-> cache[tid].price]

\* whether the 200 branch can use the response for the chunk: the body
\* parses and holds an object (or nothing) for every id of the chunk
Usable(chunk, resp) ==
    /\ resp.parsed
    /\ \A tid \in SeqSet(chunk) \cap DOMAIN resp.body : resp.body[tid].kind # "bad"

\* an entry of a generator's log, in the order things happen: a batch handed
\* to the consumer, a request sent upstream, the response to it, a sleep
Event(kind, source, data, ids, secs, status, usable) ==
    [kind |-> kind, source |-> source, data |-> data, ids |-> ids, secs |-> secs,
     status |-> status, usable |-> usable]
YieldEv(source, data) == Event("yield", source, data, <<>>, 0, 0, FALSE)
RequestEv(chunk) == Event("request", "", EmptyDict, chunk, 0, 0, FALSE)
ResponseEv(chunk, resp) ==
    Event("response", "", EmptyDict, chunk, 0, resp.status, Usable(chunk, resp))
SleepEv(secs) == Event("sleep", "", EmptyDict, <<>>, secs, 0, FALSE)

\* the response a generator holds before its first request
NoResponse == [status |-> 0, parsed |-> FALSE, body |-> EmptyDict]

\* a generator that is not running
IdleGen ==
    [pc |-> "idle", token_ids |-> <<>>, now |-> 0, to_fetch |-> <<>>, i |-> 0,
     resp |-> NoResponse, events |-> <<>>]

----------------------------------------------------------------------------
(* TokenRegistry: constants, data and the pure parts *)

\* token_registry.py:13-15, seconds
CACHE_DURATION == 86400
MISSING_TTL == 259200
REFRESH_COOLDOWN == 3600

\* lines 34-39
chain_map ==
    [chain_id \in {"1", "137", "42161", "56"} |->
        CASE chain_id = "1" -> "ethereum"
          [] chain_id = "137" -> "polygon-pos"
          [] chain_id = "42161" -> "arbitrum-one"
          [] chain_id = "56" -> "binance-smart-chain"]

\* the chain ids and addresses callers pass: two known chains and an unknown
\* one; an address in mixed case and one in lower case
ChainIds == {"1", "137", "999"}
Addresses == {"0xAA", "0xbb"}

\* str.lower() on the addresses of the model
Lower(address) ==
    CASE address = "0xAA" -> "0xaa"
      [] address = "0xBB" -> "0xbb"
      [] OTHER -> address

\* resolve_token returns None
None == "None"

\* the instants at which the clock is read while the registry works: from
\* 100000 they give the ages 3600 (the cooldown, not yet elapsed), 3601, 86401
\* (a stale snapshot) and 259200 (the blacklist TTL, expired)
RegistryInstants == {100000, 103600, 103601, 186401, 359200}

\* a coin of the upstream list; indexable = FALSE stands for an entry that
\* _build_fast_lookup cannot read (no object, or platforms that is none)
Coin(id, platforms) == [indexable |-> TRUE, id |-> id, platforms |-> platforms]
BrokenCoin == [indexable |-> FALSE, id |-> "", platforms |-> EmptyDict]

\* the coin lists the upstream may serve: nothing listed; tether listed on
\* ethereum, its address in mixed case, and a coin without an address; the
\* same with the second address listed on polygon; a list whose second entry
\* cannot be indexed
CoinLists ==
    { <<>>,
      << Coin("tether", [p \in {"ethereum"} |-> "0xAA"]),
         Coin("bitcoin", [p \in {"ethereum"} |-> ""]) >>,
      << Coin("tether", [p \in {"ethereum"} |-> "0xAA"]),
         Coin("matic", [p \in {"polygon-pos"} |-> "0xBB"]) >>,
      << Coin("matic", [p \in {"polygon-pos"} |-> "0xBB"]), BrokenCoin >> }

\* what the coin-list request may produce: status 0 stands for a raised
\* network error, parsed = FALSE for a 200 whose body resp.json() cannot parse
ListResponses ==
    {[status |-> 200, parsed |-> TRUE, data |-> d] : d \in CoinLists}
        \cup {[status |-> st, parsed |-> FALSE, data |-> <<>>] : st \in {200, 500, 0}}

\* lines 195-199: the loop over the platforms of one coin; the result does
\* not depend on the order of the platforms
IndexCoin(map, coin) ==
    LET listed == {p \in DOMAIN coin.platforms : coin.platforms[p] # ""}
    IN  [p \in (DOMAIN map) \cup listed |->
            IF p \in listed
            THEN Put(IF p \in DOMAIN map THEN map[p] ELSE EmptyDict,
                     Lower(coin.platforms[p]), coin.id)
            ELSE map[p]]

\* lines 192-199: the loop over raw_data, from position k on; st is
\* [map, raised]. An entry that cannot be read raises after the entries
\* before it were indexed.
RECURSIVE IndexLoop(_, _, _)
IndexLoop(raw_data, k, st) ==
    IF k > Len(raw_data) THEN st
    ELSE IF ~raw_data[k].indexable THEN [st EXCEPT !.raised = TRUE]
    ELSE IndexLoop(raw_data, k + 1, [st EXCEPT !.map = IndexCoin(@, raw_data[k])])

\* lines 186-199: _build_fast_lookup starts from an empty map
BuildFastLookup(raw_data) == IndexLoop(raw_data, 1, [map |-> EmptyDict, raised |-> FALSE])

\* lines 100, 129: self.lookup_map.get(platform, {}).get(addr_lower)
LookupGet(lookup_map, platform, addr_lower) ==
    IF platform \in DOMAIN lookup_map /\ addr_lower \in DOMAIN lookup_map[platform]
    THEN lookup_map[platform][addr_lower]
    ELSE None

\* a wrong freshness window: the snapshot counts as fresh for two days
IsCacheStaleTwoDays(r, now) ==
    \/ ~r.file_exists
    \/ now - r.file_mtime > 2 * CACHE_DURATION

\* lines 71-77: no registry file, or one older than a day
IsCacheStale(r, now) ==
    \/ ~r.file_exists
    \/ now - r.file_mtime > CACHE_DURATION

\* the blacklist entry measured against the wrong window, the snapshot's day
IsBlacklistedOneDay(missing_map, addr_lower, now) ==
    /\ addr_lower \in DOMAIN missing_map
    /\ missing_map[addr_lower] # 0
    /\ now - missing_map[addr_lower] < CACHE_DURATION

\* lines 110-112: the address has a blacklist entry (a timestamp that is not
\* 0) younger than the TTL
IsBlacklisted(missing_map, addr_lower, now) ==
    /\ addr_lower \in DOMAIN missing_map
    /\ missing_map[addr_lower] # 0
    /\ now - missing_map[addr_lower] < MISSING_TTL

\* lines 121, 152-153: the last refresh is more than the cooldown ago
CooldownElapsed(r, now) == now - r.last_refresh_ts > REFRESH_COOLDOWN

\* a registry that has no file on disk: __init__, lines 26-32
ColdRegistry ==
    [lookup_map |-> EmptyDict, missing_map |-> EmptyDict, last_refresh_ts |-> 0,
     file_exists |-> FALSE, file_mtime |-> 0, file_data |-> <<>>,
     missing_file |-> EmptyDict]

\* lines 45-60: initialize_local on a registry file written at mtime
LoadedRegistry(mtime, data, now) ==
    LET r == [ColdRegistry EXCEPT !.file_exists = TRUE, !.file_mtime = mtime,
                                  !.file_data = data, !.last_refresh_ts = mtime]
    IN  IF IsCacheStale(r, now) THEN r
        ELSE [r EXCEPT !.lookup_map = BuildFastLookup(data).map]

\* a resolve_token call that has not been made; requests counts the
\* coin-list requests the call has sent, line is the line of its return
IdleCall ==
    [pc |-> "idle", chain_id |-> "", address |-> "", result |-> None, line |-> 0,
     requests |-> 0]

\* the callers of resolve_token
Resolvers == {1}

----------------------------------------------------------------------------
(* The transaction pipeline at rest: etherscan.py, parser.py and the        *)
(* endpoint of main.py before anything has called them                      *)

\* etherscan.py lines 27-36: the cache of a wallet that has no file yet
NewCache ==
    [last_blocks |-> [normal |-> 0, internal |-> 0, erc20 |-> 0],
     normal |-> <<>>, internal |-> <<>>, erc20 |-> <<>>]

\* no file data/raw_txs/{address}_{chain_id}.json
NoRawFile == [exists |-> FALSE, data |-> NewCache]

\* a fetch_all_txs call that has not been made: k is the category being
\* synced, loaded the cache as lines 21-36 found it, requests and responses
\* the log of the call's requests and of their outcomes, calls the number of
\* calls made so far
IdleFetch ==
    [pc |-> "idle", k |-> 0, cache |-> NewCache, loaded |-> NewCache,
     requests |-> <<>>, responses |-> <<>>, calls |-> 0]

\* an analyze_portfolio request that has not been made
IdleApp ==
    [pc |-> "idle", chain_id |-> "", touched_tokens |-> {}, todo |-> {},
     valid_map |-> EmptyDict, spam_count |-> 0, stats |-> EmptyDict]

\* a parse_file call that has not been made
IdleParse == [pc |-> "idle", raw_data |-> EmptyDict, parsed_txs |-> EmptyDict]

\* nothing of the pipeline has run
PipelineAtRest ==
    /\ raw_file = NoRawFile
    /\ fetch = IdleFetch
    /\ app = IdleApp
    /\ parse = IdleParse

----------------------------------------------------------------------------
(* CoinGeckoClient.get_price_batches, one action per run between two        *)
(* suspension points                                                        *)

\* lines 81-89: the loop sends the request of the chunk at g.i and awaits it
SendRequest(g) ==
    [g EXCEPT !.pc = "await_get",
              !.events = Append(@, RequestEv(ChunkAt(g.to_fetch, g.i)))]

\* lines 127-128 and the loop's next turn: sleep before the next chunk, or
\* leave the loop and end
AfterChunk(g) ==
    IF g.i + chunk_size < Len(g.to_fetch)
    THEN [g EXCEPT !.pc = "sleep_rate", !.events = Append(@, SleepEv(RATE_LIMIT_DELAY))]
    ELSE [g EXCEPT !.pc = "done"]

\* lines 73-75: after the cache batch, end if nothing is to fetch, else
\* enter the loop
AfterCacheBatch(g) ==
    IF g.to_fetch = <<>> THEN [g EXCEPT !.pc = "done"] ELSE SendRequest(g)

\* lines 51-89: the consumer's first __anext__ runs the generator from its
\* start to its first suspension
Start(c, token_ids, unique_ids) ==
    /\ gen[c].pc = "idle"
    /\ unique_ids \in Orders(SeqSet(token_ids))
    /\ LET part == Partition(unique_ids, 1, price_cache, clock,
                             [to_fetch |-> <<>>, cached_batch |-> EmptyDict])
           g0 == [IdleGen EXCEPT !.token_ids = token_ids, !.now = clock,
                                 !.to_fetch = part.to_fetch]
       IN  gen' = [gen EXCEPT ![c] =
                IF unique_ids = <<>> THEN [g0 EXCEPT !.pc = "done"]
                ELSE IF part.cached_batch # EmptyDict
                THEN [g0 EXCEPT !.pc = "yield_cache",
                                !.events = Append(@, YieldEv("cache", part.cached_batch))]
                ELSE AfterCacheBatch(g0)]
    /\ UNCHANGED <<clock, price_cache, price_file, registry_vars, pipeline_vars>>

\* lines 71-89: the consumer asks for the batch after the cache batch
ResumeAfterCache(c) ==
    /\ gen[c].pc = "yield_cache"
    /\ gen' = [gen EXCEPT ![c] = AfterCacheBatch(gen[c])]
    /\ UNCHANGED <<clock, price_cache, price_file, registry_vars, pipeline_vars>>

\* the generator with the response it was awaiting
Got(g, resp) ==
    [g EXCEPT !.resp = resp,
              !.events = Append(@, ResponseEv(ChunkAt(g.to_fetch, g.i), resp))]

\* a 200 branch that stamps the entries with the time the call began
Receive200StampsCallTime(c, resp) ==
    LET g == Got(gen[c], resp)
        chunk == ChunkAt(g.to_fetch, g.i)
        out == FreshLoop(chunk, 1, resp.body, g.now,
                         [cache |-> price_cache, batch |-> EmptyDict, raised |-> FALSE])
    IN  /\ price_cache' = out.cache
        /\ IF out.raised
           THEN /\ price_file' = price_file
                /\ gen' = [gen EXCEPT ![c] = AfterChunk(g)]
           ELSE /\ price_file' = out.cache
                /\ gen' = [gen EXCEPT ![c] =
                        [g EXCEPT !.pc = "yield_api",
                                  !.events = Append(@, YieldEv("api", out.batch))]]

\* lines 91-111: a 200 whose body parses
Receive200(c, resp) ==
    LET g == Got(gen[c], resp)
        chunk == ChunkAt(g.to_fetch, g.i)
        out == FreshLoop(chunk, 1, resp.body, clock,
                         [cache |-> price_cache, batch |-> EmptyDict, raised |-> FALSE])
    IN  /\ price_cache' = out.cache
        /\ IF out.raised
           THEN \* line 124: the exception leaves the try, nothing is saved
                /\ price_file' = price_file
                /\ gen' = [gen EXCEPT ![c] = AfterChunk(g)]
           ELSE \* lines 109-111: _save_cache_to_disk, then the yield
                /\ price_file' = out.cache
                /\ gen' = [gen EXCEPT ![c] =
                        [g EXCEPT !.pc = "yield_api",
                                  !.events = Append(@, YieldEv("api", out.batch))]]

\* lines 112-123: a 429
Receive429(c, resp) ==
    LET g == Got(gen[c], resp)
        stale_batch == StaleBatch(ChunkAt(g.to_fetch, g.i), price_cache)
    IN  /\ gen' = [gen EXCEPT ![c] =
                IF stale_batch # EmptyDict
                THEN [g EXCEPT !.pc = "yield_stale",
                               !.events = Append(@, YieldEv("stale_cache", stale_batch))]
                ELSE [g EXCEPT !.pc = "sleep_429",
                               !.events = Append(@, SleepEv(BACKOFF_DELAY))]]
        /\ UNCHANGED <<price_cache, price_file>>

\* a failure that ends the generator: the exception reaches the consumer
ReceiveFailureRaises(c, resp) ==
    /\ gen' = [gen EXCEPT ![c] = [Got(gen[c], resp) EXCEPT !.pc = "raised"]]
    /\ UNCHANGED <<price_cache, price_file>>

\* a failure after which the loop turns to the next chunk at once
ReceiveFailureNoDelay(c, resp) ==
    /\ gen' = [gen EXCEPT ![c] =
            LET g == Got(gen[c], resp) IN
            IF g.i + chunk_size < Len(g.to_fetch)
            THEN SendRequest([g EXCEPT !.i = @ + chunk_size])
            ELSE [g EXCEPT !.pc = "done"]]
    /\ UNCHANGED <<price_cache, price_file>>

\* lines 86-125: client.get raises, resp.json() raises, or the status is
\* neither 200 nor 429
ReceiveFailure(c, resp) ==
    /\ gen' = [gen EXCEPT ![c] = AfterChunk(Got(gen[c], resp))]
    /\ UNCHANGED <<price_cache, price_file>>

\* lines 86-125: the awaited request completes
Receive(c, resp) ==
    /\ gen[c].pc = "await_get"
    /\ resp \in Responses(ChunkAt(gen[c].to_fetch, gen[c].i))
    /\ IF resp.status = 200 /\ resp.parsed THEN Receive200(c, resp)
       ELSE IF resp.status = 429 THEN Receive429(c, resp)
       ELSE ReceiveFailure(c, resp)
    /\ UNCHANGED <<clock, registry_vars, pipeline_vars>>

\* lines 111, 127-128: the consumer asks for the batch after an api batch
ResumeAfterApi(c) ==
    /\ gen[c].pc = "yield_api"
    /\ gen' = [gen EXCEPT ![c] = AfterChunk(gen[c])]
    /\ UNCHANGED <<clock, price_cache, price_file, registry_vars, pipeline_vars>>

\* lines 121-123: the consumer asks for the batch after a stale batch
ResumeAfterStale(c) ==
    /\ gen[c].pc = "yield_stale"
    /\ gen' = [gen EXCEPT ![c] =
            [gen[c] EXCEPT !.pc = "sleep_429", !.events = Append(@, SleepEv(BACKOFF_DELAY))]]
    /\ UNCHANGED <<clock, price_cache, price_file, registry_vars, pipeline_vars>>

\* a backoff that ends by asking for the same chunk again
Wake429Retries(c) ==
    /\ gen[c].pc = "sleep_429"
    /\ gen' = [gen EXCEPT ![c] = SendRequest(gen[c])]
    /\ UNCHANGED <<clock, price_cache, price_file, registry_vars, pipeline_vars>>

\* lines 123-128: the backoff sleep ends
Wake429(c) ==
    /\ gen[c].pc = "sleep_429"
    /\ gen' = [gen EXCEPT ![c] = AfterChunk(gen[c])]
    /\ UNCHANGED <<clock, price_cache, price_file, registry_vars, pipeline_vars>>

\* lines 128, 81-89: the inter-request sleep ends, the loop turns to the next
\* chunk
WakeRate(c) ==
    /\ gen[c].pc = "sleep_rate"
    /\ gen' = [gen EXCEPT ![c] = SendRequest([gen[c] EXCEPT !.i = @ + chunk_size])]
    /\ UNCHANGED <<clock, price_cache, price_file, registry_vars, pipeline_vars>>

\* time passes, to a later instant at which the clock is read. The generator
\* reads the clock when it starts (line 57) and when a response has arrived
\* (line 103): the model lets time pass before a call and during a request.
TickPrice ==
    /\ \E c \in Callers : gen[c].pc \in {"idle", "await_get"}
    /\ \E t \in PriceInstants : t > clock /\ clock' = t
    /\ UNCHANGED <<price_cache, price_file, gen, registry_vars, pipeline_vars>>

\* __init__, lines 23-36: the cache is what the file holds (nothing when
\* there is no file); nobody has called yet
InitPrice ==
    /\ clock = 1
    /\ price_file \in LoadedCaches
    /\ price_cache = price_file
    /\ gen = [c \in Callers |-> IdleGen]
    /\ reg = ColdRegistry
    /\ res = [r \in Resolvers |-> IdleCall]
    /\ PipelineAtRest

NextPrice ==
    \/ \E c \in Callers, token_ids \in InputLists :
          \E unique_ids \in Orders(SeqSet(token_ids)) : Start(c, token_ids, unique_ids)
    \/ \E c \in Callers : ResumeAfterCache(c)
    \/ \E c \in Callers : \E resp \in Responses(ChunkAt(gen[c].to_fetch, gen[c].i)) :
          Receive(c, resp)
    \/ \E c \in Callers : ResumeAfterApi(c)
    \/ \E c \in Callers : ResumeAfterStale(c)
    \/ \E c \in Callers : Wake429(c)
    \/ \E c \in Callers : WakeRate(c)
    \/ TickPrice

SpecPrice == InitPrice /\ [][NextPrice]_vars

\* a step of caller c's generator once it has started: the consumer's next
\* __anext__, the completion of the request or of the sleep it awaits
Advance(c) ==
    \/ ResumeAfterCache(c)
    \/ \E resp \in Responses(ChunkAt(gen[c].to_fetch, gen[c].i)) : Receive(c, resp)
    \/ ResumeAfterApi(c)
    \/ ResumeAfterStale(c)
    \/ Wake429(c)
    \/ WakeRate(c)

----------------------------------------------------------------------------
(* Two get_price_batches calls in flight on one CoinGeckoClient: the        *)
(* generators share price_cache and interleave at their suspension points   *)

\* the callers of the concurrent runs
ConcCallers == {1, 2}

\* the lists they pass: one id, or three ids (two chunks)
ConcInputLists == {<<"bitcoin">>, <<"bitcoin", "ethereum", "tether">>}

\* the orders list(set(...)) gives them in these runs: the list's or its
\* reverse
ConcOrders(token_ids) ==
    {token_ids, [k \in 1..Len(token_ids) |-> token_ids[Len(token_ids) + 1 - k]]}

\* the upstream's answers in these runs: a 200 whose body quotes every id of
\* the chunk or all but its first id, a 429, a network error
ConcResponses(chunk) ==
    {resp \in Responses(chunk) :
        \/ resp.status \in {429, 0}
        \/ /\ resp.status = 200 /\ resp.parsed
           /\ {chunk[k] : k \in 2..Len(chunk)} \subseteq DOMAIN resp.body
           /\ \A tid \in DOMAIN resp.body : resp.body[tid].kind = "usd"}

\* time passes while some generator is about to read the clock
TickPriceConc ==
    /\ \E c \in ConcCallers : gen[c].pc \in {"idle", "await_get"}
    /\ \E t \in PriceInstants : t > clock /\ clock' = t
    /\ UNCHANGED <<price_cache, price_file, gen, registry_vars, pipeline_vars>>

InitPriceConc ==
    /\ clock = 1
    /\ price_file \in LoadedCaches
    /\ price_cache = price_file
    /\ gen = [c \in ConcCallers |-> IdleGen]
    /\ reg = ColdRegistry
    /\ res = [r \in Resolvers |-> IdleCall]
    /\ PipelineAtRest

NextPriceConc ==
    \/ \E c \in ConcCallers, token_ids \in ConcInputLists :
          \E unique_ids \in ConcOrders(token_ids) : Start(c, token_ids, unique_ids)
    \/ \E c \in ConcCallers : ResumeAfterCache(c)
    \/ \E c \in ConcCallers :
          \E resp \in ConcResponses(ChunkAt(gen[c].to_fetch, gen[c].i)) : Receive(c, resp)
    \/ \E c \in ConcCallers : ResumeAfterApi(c)
    \/ \E c \in ConcCallers : ResumeAfterStale(c)
    \/ \E c \in ConcCallers : Wake429(c)
    \/ \E c \in ConcCallers : WakeRate(c)
    \/ TickPriceConc

SpecPriceConc == InitPriceConc /\ [][NextPriceConc]_vars

----------------------------------------------------------------------------
(* One get_price_batches call driven to its end *)

\* the calls of one caller, the ids of each list worked in the order of
\* IdList or in its reverse
NextPriceLive ==
    \/ \E c \in Callers, token_ids \in InputLists :
          \E unique_ids \in ConcOrders(ListOf(SeqSet(token_ids), 1)) :
             Start(c, token_ids, unique_ids)
    \/ \E c \in Callers : ResumeAfterCache(c)
    \/ \E c \in Callers : \E resp \in Responses(ChunkAt(gen[c].to_fetch, gen[c].i)) :
          Receive(c, resp)
    \/ \E c \in Callers : ResumeAfterApi(c)
    \/ \E c \in Callers : ResumeAfterStale(c)
    \/ \E c \in Callers : Wake429(c)
    \/ \E c \in Callers : WakeRate(c)
    \/ TickPrice

\* the runs with a consumer that iterates to the end (async for, main.py
\* line 62) and an event loop on which every request and every sleep
\* completes (client.get returns or raises, httpx's timeout included)
SpecPriceLive ==
    InitPrice /\ [][NextPriceLive]_vars /\ \A c \in Callers : WF_vars(Advance(c))

----------------------------------------------------------------------------
(* TokenRegistry.resolve_token and _refresh_registry_if_needed, one action  *)
(* per run between two awaits                                               *)

\* lines 152-159: whether _refresh_registry_if_needed(force) sends the
\* coin-list request
RefreshNeeded(r, force, now) ==
    /\ ~(force /\ now - r.last_refresh_ts < REFRESH_COOLDOWN)
    /\ (IsCacheStale(r, now) \/ force)

\* lines 163-184: the coin-list request completes; the result is the registry
\* and the value _refresh_registry_if_needed returns. The file is written
\* before the list is indexed, the timestamp set after.
ApplyRefresh(r, resp, now) ==
    IF resp.status = 200 /\ resp.parsed
    THEN LET built == BuildFastLookup(resp.data)
             written == [r EXCEPT !.file_exists = TRUE, !.file_mtime = now,
                                  !.file_data = resp.data, !.lookup_map = built.map]
         IN  IF built.raised
             THEN [reg |-> written, updated |-> FALSE]
             ELSE [reg |-> [written EXCEPT !.last_refresh_ts = now], updated |-> TRUE]
    ELSE [reg |-> r, updated |-> FALSE]

\* the call returns result at a line of resolve_token
Returned(call, result, line) ==
    [call EXCEPT !.pc = "returned", !.result = result, !.line = line]

\* a blacklisting that stays in memory
BlacklistUnsaved(r, addr_lower, now) ==
    [r EXCEPT !.missing_map = Put(@, addr_lower, now)]

\* lines 142-143: blacklist the address now and save the blacklist
Blacklist(r, addr_lower, now) ==
    [r EXCEPT !.missing_map = Put(@, addr_lower, now),
              !.missing_file = Put(r.missing_map, addr_lower, now)]

\* lines 110-145, to the return or to the forced refresh's request: the
\* address is not in the lookup map
AfterLookupMiss(r, call, addr_lower, now) ==
    IF IsBlacklisted(r.missing_map, addr_lower, now)
    THEN [reg |-> r, call |-> Returned(call, None, 114)]
    ELSE LET \* lines 115-117: an expired entry is deleted, in memory
             r1 == IF addr_lower \in DOMAIN r.missing_map /\ r.missing_map[addr_lower] # 0
                   THEN [r EXCEPT !.missing_map = Del(@, addr_lower)]
                   ELSE r
         IN  IF CooldownElapsed(r1, now) /\ RefreshNeeded(r1, TRUE, now)
             THEN [reg |-> r1,
                   call |-> [call EXCEPT !.pc = "await_forced", !.requests = @ + 1]]
             ELSE [reg |-> Blacklist(r1, addr_lower, now), call |-> Returned(call, None, 145)]

\* lines 98-145, to the return or to the forced refresh's request
LookupPhase(r, call, now) ==
    LET addr_lower == Lower(call.address)
        cg_id == LookupGet(r.lookup_map, chain_map[call.chain_id], addr_lower)
    IN  IF cg_id # None
        THEN [reg |-> IF addr_lower \in DOMAIN r.missing_map
                      THEN [r EXCEPT !.missing_map = Del(@, addr_lower),
                                     !.missing_file = Del(r.missing_map, addr_lower)]
                      ELSE r,
              call |-> Returned(call, cg_id, 106)]
        ELSE AfterLookupMiss(r, call, addr_lower, now)

\* lines 127-145: after the forced refresh
ForcedPhase(r, call, updated, now) ==
    LET addr_lower == Lower(call.address)
        cg_id == LookupGet(r.lookup_map, chain_map[call.chain_id], addr_lower)
    IN  IF updated /\ cg_id # None
        THEN [reg |-> r, call |-> Returned(call, cg_id, 131)]
        ELSE [reg |-> Blacklist(r, addr_lower, now), call |-> Returned(call, None, 145)]

\* an unknown chain treated as a miss: the address is blacklisted
UnknownChainBlacklisted(r, call, now) ==
    [reg |-> Blacklist(r, Lower(call.address), now), call |-> Returned(call, None, 145)]

\* lines 86-88: chain_map has no platform for the chain id
UnknownChain(r, call, now) == [reg |-> r, call |-> Returned(call, None, 88)]

\* lines 79-145: resolve_token is called and runs to its first await or to
\* its return
ResolveCall(x, chain_id, address) ==
    /\ res[x].pc \in {"idle", "returned"}
    /\ LET call == [IdleCall EXCEPT !.chain_id = chain_id, !.address = address]
           out == IF chain_id \notin DOMAIN chain_map
                  THEN UnknownChain(reg, call, clock)
                  ELSE IF IsCacheStale(reg, clock) /\ RefreshNeeded(reg, FALSE, clock)
                  THEN [reg |-> reg,
                        call |-> [call EXCEPT !.pc = "await_stale", !.requests = 1]]
                  ELSE LookupPhase(reg, call, clock)
       IN  /\ reg' = out.reg
           /\ res' = [res EXCEPT ![x] = out.call]
    /\ UNCHANGED <<clock, price_vars, pipeline_vars>>

\* lines 96-145: the refresh of a stale list completes, the lookup follows
StaleRefreshDone(x, resp) ==
    /\ res[x].pc = "await_stale"
    /\ LET out == LookupPhase(ApplyRefresh(reg, resp, clock).reg, res[x], clock)
       IN  /\ reg' = out.reg
           /\ res' = [res EXCEPT ![x] = out.call]
    /\ UNCHANGED <<clock, price_vars, pipeline_vars>>

\* lines 125-145: the forced refresh completes
ForcedRefreshDone(x, resp) ==
    /\ res[x].pc = "await_forced"
    /\ LET refreshed == ApplyRefresh(reg, resp, clock)
           out == ForcedPhase(refreshed.reg, res[x], refreshed.updated, clock)
       IN  /\ reg' = out.reg
           /\ res' = [res EXCEPT ![x] = out.call]
    /\ UNCHANGED <<clock, price_vars, pipeline_vars>>

\* time passes, to a later instant at which the clock is read
TickRegistry ==
    /\ \E t \in RegistryInstants : t > clock /\ clock' = t
    /\ UNCHANGED <<price_vars, registry_vars, pipeline_vars>>

\* the coin lists a registry file holds at start
StoredLists == {d \in CoinLists : ~BuildFastLookup(d).raised}

\* __init__, lines 24-43: no blacklist file; no registry file, or one that an
\* earlier run wrote long ago (at 1) or just now
InitRegistry ==
    /\ clock = 100000
    /\ reg \in {ColdRegistry}
                 \cup {LoadedRegistry(mtime, d, 100000) : mtime \in {1, 100000}, d \in StoredLists}
    /\ res = [x \in Resolvers |-> IdleCall]
    /\ price_cache = EmptyDict
    /\ price_file = EmptyDict
    /\ gen = [c \in Callers |-> IdleGen]
    /\ PipelineAtRest

NextRegistry ==
    \/ \E x \in Resolvers, chain_id \in ChainIds, address \in Addresses :
          ResolveCall(x, chain_id, address)
    \/ \E x \in Resolvers, resp \in ListResponses : StaleRefreshDone(x, resp)
    \/ \E x \in Resolvers, resp \in ListResponses : ForcedRefreshDone(x, resp)
    \/ TickRegistry

SpecRegistry == InitRegistry /\ [][NextRegistry]_vars

----------------------------------------------------------------------------
(* The server: the startup task of main.py refreshing the registry in the   *)
(* background while two resolve_token calls are in flight. The coroutines   *)
(* run on one event loop: each runs alone from one await to the next, so    *)
(* _build_fast_lookup, which awaits nothing, is never interleaved.          *)

\* the resolve_token callers of the concurrent runs; 0 names the startup task
ConcResolvers == {1, 2}
StartupTask == 0

\* the chain and the addresses they ask for
ConcChainIds == {"1"}
ConcAddresses == {"0xAA"}

\* main.py lines 18-22: at startup a stale registry gets a background
\* _refresh_registry_if_needed(), which sends its request (lines 152-165)
StartupCall(r, now) ==
    IF IsCacheStale(r, now) /\ RefreshNeeded(r, FALSE, now)
    THEN [IdleCall EXCEPT !.pc = "await_startup", !.requests = 1]
    ELSE IdleCall

\* lines 163-184, for the startup task: its coin-list request completes
StartupRefreshDone(resp) ==
    /\ res[StartupTask].pc = "await_startup"
    /\ reg' = ApplyRefresh(reg, resp, clock).reg
    /\ res' = [res EXCEPT ![StartupTask] = [@ EXCEPT !.pc = "returned"]]
    /\ UNCHANGED <<clock, price_vars, pipeline_vars>>

InitRegistryConc ==
    /\ clock = 100000
    /\ reg \in {ColdRegistry}
                 \cup {LoadedRegistry(mtime, d, 100000) : mtime \in {1, 100000}, d \in StoredLists}
    /\ res = [x \in ConcResolvers \cup {StartupTask} |->
                 IF x = StartupTask THEN StartupCall(reg, 100000) ELSE IdleCall]
    /\ price_cache = EmptyDict
    /\ price_file = EmptyDict
    /\ gen = [c \in Callers |-> IdleGen]
    /\ PipelineAtRest

NextRegistryConc ==
    \/ \E x \in ConcResolvers, chain_id \in ConcChainIds, address \in ConcAddresses :
          ResolveCall(x, chain_id, address)
    \/ \E x \in ConcResolvers, resp \in ListResponses : StaleRefreshDone(x, resp)
    \/ \E x \in ConcResolvers, resp \in ListResponses : ForcedRefreshDone(x, resp)
    \/ \E resp \in ListResponses : StartupRefreshDone(resp)
    \/ TickRegistry

SpecRegistryConc == InitRegistryConc /\ [][NextRegistryConc]_vars

----------------------------------------------------------------------------
(* The process is stopped and started again: TokenRegistry() is constructed *)
(* anew from the two files the earlier run left on disk                     *)

\* lines 24-65: __init__ on the files of r. The blacklist is what its file
\* holds; a registry file that is not stale is loaded and indexed, and
\* raised tells whether that raises out of the constructor.
Reconstruct(r, now) ==
    LET r0 == [ColdRegistry EXCEPT !.missing_map = r.missing_file,
                                   !.missing_file = r.missing_file,
                                   !.file_exists = r.file_exists,
                                   !.file_mtime = r.file_mtime,
                                   !.file_data = r.file_data,
                                   !.last_refresh_ts =
                                       IF r.file_exists THEN r.file_mtime ELSE 0]
        built == BuildFastLookup(r.file_data)
    IN  IF r.file_exists /\ ~IsCacheStale(r0, now)
        THEN [reg |-> [r0 EXCEPT !.lookup_map = built.map], raised |-> built.raised]
        ELSE [reg |-> r0, raised |-> FALSE]

\* token_registry = TokenRegistry() (line 202) in a new process: the calls
\* of the old one are gone; when the constructor raises the module cannot be
\* imported and no call is served
Restart ==
    /\ LET out == Reconstruct(reg, clock)
       IN  /\ reg' = out.reg
           /\ res' = [x \in DOMAIN res |->
                        IF out.raised THEN [IdleCall EXCEPT !.pc = "crashed"] ELSE IdleCall]
    /\ UNCHANGED <<clock, price_vars, pipeline_vars>>

NextRestart ==
    \/ \E x \in Resolvers, chain_id \in ChainIds, address \in Addresses :
          ResolveCall(x, chain_id, address)
    \/ \E x \in Resolvers, resp \in ListResponses : StaleRefreshDone(x, resp)
    \/ \E x \in Resolvers, resp \in ListResponses : ForcedRefreshDone(x, resp)
    \/ TickRegistry
    \/ Restart

SpecRestart == InitRegistry /\ [][NextRestart]_vars

----------------------------------------------------------------------------
(* etherscan.py: fetch_all_txs syncs the three categories of a wallet's     *)
(* history one after the other, one action per run between two awaits       *)

\* the categories in the order fetch_all_txs syncs them (lines 39-64), and
\* the Etherscan action that lists each
Categories == <<"normal", "internal", "erc20">>
ActionOf == [normal |-> "txlist", internal |-> "txlistinternal", erc20 |-> "tokentx"]

\* the highest block of the chain while the model runs; blocks count from 0,
\* the genesis block, whose allocations Etherscan lists as transactions
LastBlock == 2

\* the fetch_all_txs calls made for the wallet
MaxCalls == 2

\* a transaction as Etherscan lists it
Tx(blockNumber, contractAddress) ==
    [blockNumber |-> blockNumber, contractAddress |-> contractAddress]

\* the blocks of B in ascending order (sort=asc, line 91), from block b on
RECURSIVE Ascending(_, _)
Ascending(B, b) ==
    IF b > LastBlock THEN <<>>
    ELSE (IF b \in B THEN <<Tx(b, "")>> ELSE <<>>) \o Ascending(B, b + 1)

\* what the request of a category may produce when it asks from start_block
\* on: status "1" with the transactions of some blocks not below start_block
\* or with none, status "0" with the message "No transactions found" or with
\* an error message, or a failure of the request or of resp.json() ("raised")
EtherscanResponses(start_block) ==
    {[status |-> "1", message |-> "OK", result |-> Ascending(B, 0)] :
        B \in SUBSET (start_block..LastBlock)}
      \cup {[status |-> "0", message |-> m, result |-> <<>>] :
                m \in {"No transactions found", "NOTOK"}}
      \cup {[status |-> "raised", message |-> "", result |-> <<>>]}

\* line 82: the block the request starts from
StartBlock(last_block) == IF last_block # 0 THEN last_block + 1 ELSE last_block

\* line 102: max(int(tx["blockNumber"]) for tx in new_txs)
RECURSIVE MaxBlockNumber(_, _)
MaxBlockNumber(new_txs, k) ==
    IF k = Len(new_txs) THEN new_txs[k].blockNumber
    ELSE LET rest == MaxBlockNumber(new_txs, k + 1)
         IN  IF new_txs[k].blockNumber > rest THEN new_txs[k].blockNumber ELSE rest

\* lines 95-116: what _sync_category returns for the response
SyncCategory(last_block, resp) ==
    IF resp.status = "1" /\ resp.result # <<>>
    THEN [new_txs |-> resp.result, last_block |-> MaxBlockNumber(resp.result, 1)]
    ELSE [new_txs |-> <<>>, last_block |-> last_block]

\* lines 40-43, 49-52, 58-61 with 82-96: the request of the k-th category is
\* sent and awaited
SendSync(f, k) ==
    LET cat == Categories[k] IN
    [f EXCEPT !.pc = "await", !.k = k,
              !.requests = Append(@, [action |-> ActionOf[cat],
                                      startblock |-> StartBlock(f.cache.last_blocks[cat])])]

\* lines 44-46, 53-55, 62-64: the new transactions are appended and the last
\* block of the category set, if there are any
Extend(f, cat, out) ==
    IF out.new_txs # <<>>
    THEN [f EXCEPT !.cache = [@ EXCEPT ![cat] = @ \o out.new_txs,
                                       !.last_blocks = [@ EXCEPT ![cat] = out.last_block]]]
    ELSE f

\* lines 19-43: fetch_all_txs is called, loads the wallet's file or starts a
\* new cache, and asks for the normal transactions
FetchStart ==
    /\ fetch.pc \in {"idle", "returned"}
    /\ fetch.calls < MaxCalls
    /\ LET cache == IF raw_file.exists THEN raw_file.data ELSE NewCache
       IN  fetch' = SendSync([IdleFetch EXCEPT !.cache = cache, !.loaded = cache,
                                               !.calls = fetch.calls + 1], 1)
    /\ UNCHANGED <<raw_file, clock, price_vars, registry_vars, app, parse>>

\* lines 41-72: the awaited request of a category completes; the next
\* category is asked for, or the file is written and the call returns
CategorySynced(resp) ==
    /\ fetch.pc = "await"
    /\ LET cat == Categories[fetch.k]
           out == SyncCategory(fetch.cache.last_blocks[cat], resp)
           f1 == [Extend(fetch, cat, out) EXCEPT !.responses = Append(@, resp)]
       IN  IF fetch.k < Len(Categories)
           THEN /\ fetch' = SendSync(f1, fetch.k + 1)
                /\ UNCHANGED raw_file
           ELSE /\ fetch' = [f1 EXCEPT !.pc = "returned"]
                /\ raw_file' = [exists |-> TRUE, data |-> f1.cache]
    /\ UNCHANGED <<clock, price_vars, registry_vars, app, parse>>

\* the start block of the request that is awaited (0 when none is)
AwaitedStart ==
    IF fetch.pc = "await" THEN fetch.requests[Len(fetch.requests)].startblock ELSE 0

\* the process starts with no file for the wallet
InitSync ==
    /\ clock = 1
    /\ price_cache = EmptyDict
    /\ price_file = EmptyDict
    /\ gen = [c \in Callers |-> IdleGen]
    /\ reg = ColdRegistry
    /\ res = [x \in Resolvers |-> IdleCall]
    /\ PipelineAtRest

NextSync ==
    \/ FetchStart
    \/ \E resp \in EtherscanResponses(AwaitedStart) : CategorySynced(resp)

SpecSync == InitSync /\ [][NextSync]_vars

----------------------------------------------------------------------------
(* main.py: one analyze_portfolio request. The endpoint awaits              *)
(* fetch_all_txs, then resolve_token for each touched contract, then        *)
(* iterates get_price_batches; its own code runs between those awaits       *)

\* the contract addresses of the ERC-20 records the upstream lists: one
\* contract spelled in mixed case and in lower case, and a second contract
TouchedAddresses == {"0xAA", "0xaa", "0xbb"}

\* the chains requests are made for
AnalyzeChainIds == {"1", "137"}

\* the caller ids under which the request runs resolve_token and
\* get_price_batches
AppResolver == 1
AppCaller == 1

\* the ERC-20 records of the contracts of S, one each, in a fixed order
RECURSIVE Erc20Records(_)
Erc20Records(S) ==
    IF S = {} THEN <<>>
    ELSE LET a == CHOOSE x \in S : TRUE
         IN  <<Tx(1, a)>> \o Erc20Records(S \ {a})

\* what the upstream answers while the request is served: no normal and no
\* internal transaction; ERC-20 records of any of the contracts, or a failure
AnalyzeResponses(k) ==
    IF k = 3
    THEN {[status |-> "1", message |-> "OK", result |-> Erc20Records(S)] :
              S \in SUBSET TouchedAddresses}
           \cup {[status |-> "raised", message |-> "", result |-> <<>>]}
    ELSE {[status |-> "0", message |-> "No transactions found", result |-> <<>>]}

\* the price cache an earlier request left: nothing, or the price of tether
\* written at the instant the model starts
AnalyzeCaches ==
    {EmptyDict, [tid \in {"tether"} |-> [price |-> 1, ts |-> 100000]]}

\* line 35: the request awaits fetch_all_txs
AnalyzeFetch ==
    /\ app.pc = "idle"
    /\ fetch.pc = "idle"
    /\ FetchStart

\* line 38: set(tx["contractAddress"] for tx in raw_data.get("erc20", []))
TouchedTokens(raw_data) == {raw_data.erc20[k].contractAddress : k \in 1..Len(raw_data.erc20)}

\* lines 35-44: fetch_all_txs has returned; the touched contracts are
\* collected and the loop begins
AnalyzeTouched ==
    /\ app.pc = "idle"
    /\ fetch.pc = "returned"
    /\ app' = [app EXCEPT !.pc = "loop",
                          !.touched_tokens = TouchedTokens(fetch.cache),
                          !.todo = TouchedTokens(fetch.cache)]
    /\ UNCHANGED <<clock, price_vars, registry_vars, raw_file, fetch, parse>>

\* lines 46-47: the loop takes a contract it has not taken yet and awaits
\* resolve_token
AnalyzeResolve ==
    /\ app.pc = "loop"
    /\ res[AppResolver].pc = "idle"
    /\ \E token_addr \in app.todo : ResolveCall(AppResolver, app.chain_id, token_addr)

\* lines 48-51: the id goes into valid_map, keyed by the id, or the contract
\* counts as spam
Counted(a, token_addr, cg_id) ==
    [a EXCEPT !.todo = @ \ {token_addr},
              !.valid_map = IF cg_id # None THEN Put(@, cg_id, token_addr) ELSE @,
              !.spam_count = IF cg_id # None THEN @ ELSE @ + 1]

\* lines 47-51: resolve_token has returned to the loop
AnalyzeCollect ==
    /\ app.pc = "loop"
    /\ res[AppResolver].pc = "returned"
    /\ app' = Counted(app, res[AppResolver].address, res[AppResolver].result)
    /\ res' = [res EXCEPT ![AppResolver] = IdleCall]
    /\ UNCHANGED <<clock, price_vars, reg, raw_file, fetch, parse>>

\* lines 58-62: after the loop, the ids of valid_map are handed to
\* get_price_batches, in the order of insertion or any other the call works
\* them in
AnalyzeStream ==
    /\ app.pc = "loop"
    /\ app.todo = {}
    /\ res[AppResolver].pc = "idle"
    /\ DOMAIN app.valid_map # {}
    /\ \E token_ids \in Orders(DOMAIN app.valid_map) :
          Start(AppCaller, token_ids, token_ids)

\* lines 62-74: the entries of portfolio_preview, batch by batch
PortfolioOf(ev, valid_map) ==
    [k \in 1..Len(ev) |->
        IF ev[k].kind = "yield"
        THEN {[asset_id |-> cg_id, contract |-> valid_map[cg_id],
               price_usd |-> ev[k].data[cg_id], source |-> ev[k].source] :
                 cg_id \in DOMAIN ev[k].data}
        ELSE {}]

\* lines 76-89: the response
Response(a, raw_data, ev) ==
    [total_transactions |-> Len(raw_data.normal) + Len(raw_data.internal) + Len(raw_data.erc20),
     unique_token_seen |-> Cardinality(a.touched_tokens),
     valid_assets_identified |-> Cardinality(DOMAIN a.valid_map),
     spam_tokens_blocked |-> a.spam_count,
     portfolio |-> PortfolioOf(ev, a.valid_map)]

\* lines 58-89: no id to price, or the generator is exhausted: the request
\* is answered
AnalyzeRespond ==
    /\ app.pc = "loop"
    /\ app.todo = {}
    /\ res[AppResolver].pc = "idle"
    /\ DOMAIN app.valid_map = {} \/ gen[AppCaller].pc = "done"
    /\ app' = [app EXCEPT !.pc = "responded",
                          !.stats = Response(app, fetch.cache, gen[AppCaller].events)]
    /\ UNCHANGED <<clock, price_vars, registry_vars, raw_file, fetch, parse>>

\* the server has started, with or without a registry snapshot and a price
\* cache, and a request for one of the chains comes in
InitAnalyze ==
    /\ clock = 100000
    /\ reg \in {ColdRegistry}
                 \cup {LoadedRegistry(mtime, d, 100000) : mtime \in {1, 100000}, d \in StoredLists}
    /\ res = [x \in Resolvers |-> IdleCall]
    /\ price_file \in AnalyzeCaches
    /\ price_cache = price_file
    /\ gen = [c \in Callers |-> IdleGen]
    /\ raw_file = NoRawFile
    /\ fetch = IdleFetch
    /\ app \in {[IdleApp EXCEPT !.chain_id = chain_id] : chain_id \in AnalyzeChainIds}
    /\ parse = IdleParse

\* a request prices at most one id, so its generator never sleeps between
\* two chunks
NextAnalyze ==
    \/ AnalyzeFetch
    \/ \E resp \in AnalyzeResponses(fetch.k) : CategorySynced(resp)
    \/ AnalyzeTouched
    \/ AnalyzeResolve
    \/ \E resp \in ListResponses : StaleRefreshDone(AppResolver, resp)
    \/ \E resp \in ListResponses : ForcedRefreshDone(AppResolver, resp)
    \/ AnalyzeCollect
    \/ AnalyzeStream
    \/ ResumeAfterCache(AppCaller)
    \/ \E resp \in Responses(ChunkAt(gen[AppCaller].to_fetch, gen[AppCaller].i)) :
          Receive(AppCaller, resp)
    \/ ResumeAfterApi(AppCaller)
    \/ ResumeAfterStale(AppCaller)
    \/ Wake429(AppCaller)
    \/ AnalyzeRespond
    \/ TickRegistry

SpecAnalyze == InitAnalyze /\ [][NextAnalyze]_vars

----------------------------------------------------------------------------
(* parser.py: TransactionParser.parse_file, a function of the raw file      *)

\* the wallet of the file's metadata, as written there
WalletAddress == "0xAA"

\* the hashes of the normal transactions, and a hash that only internal and
\* ERC-20 records carry
NormalHashes == {"h1", "h2"}
OrphanHash == "h3"

\* the senders and receivers of the records: the wallet and a stranger
Parties == {"0xAA", "0xbb"}

\* the values of the records
Values == {0, 5}

\* a record of one of the three lists of the file
Record(hash, from, to, value, contractAddress) ==
    [hash |-> hash, from |-> from, to |-> to, value |-> value,
     contractAddress |-> contractAddress]

\* every list of at most n elements of S
ListsUpTo(S, n) == UNION {[1..m -> S] : m \in 0..n}

\* the normal lists of the files: at most two transactions, from the wallet
\* or to it
NormalLists ==
    ListsUpTo({Record(h, f, IF f = "0xAA" THEN "0xbb" ELSE "0xAA", v, "") :
                  h \in NormalHashes, f \in Parties, v \in Values}, 2)

\* the internal lists: at most one record, between any two parties
InternalLists ==
    ListsUpTo({Record(h, f, t, v, "") :
                  h \in NormalHashes \cup {OrphanHash}, f \in Parties, t \in Parties,
                  v \in Values}, 1)

\* the ERC-20 lists: at most one record of the token at 0xBB
Erc20Lists ==
    ListsUpTo({Record(h, f, t, v, "0xBB") :
                  h \in NormalHashes \cup {OrphanHash}, f \in Parties, t \in Parties,
                  v \in Values}, 1)

\* lines 18-20: there is no file at file_path
MissingFile ==
    [exists |-> FALSE, address |-> "", normal |-> <<>>, internal |-> <<>>, erc20 |-> <<>>]

\* the files parse_file is given
RawFiles ==
    {[exists |-> TRUE, address |-> WalletAddress, normal |-> n, internal |-> i, erc20 |-> e] :
        n \in NormalLists, i \in InternalLists, e \in Erc20Lists}
      \cup {MissingFile}

\* an entry of a transaction's transfers; type is "" where the code sets none
Transfer(token_address, amount_raw, direction, type) ==
    [token_address |-> token_address, amount_raw |-> amount_raw,
     direction |-> direction, type |-> type]

\* lines 53-55, 105: the direction of a primary or ERC-20 transfer
DirectionFrom(tx, wallet_address) ==
    IF Lower(tx.from) = wallet_address THEN "OUT" ELSE "IN"

\* lines 32-64: the loop over the normal list, from position k on
RECURSIVE NormalLoop(_, _, _, _)
NormalLoop(normal, k, wallet_address, parsed_txs) ==
    IF k > Len(normal) THEN parsed_txs
    ELSE LET tx == normal[k]
             row == [tx_hash |-> tx.hash, wallet_address |-> wallet_address,
                     from_address |-> Lower(tx.from), to_address |-> Lower(tx.to),
                     transfers |->
                        IF tx.value > 0
                        THEN <<Transfer("NATIVE", tx.value,
                                        DirectionFrom(tx, wallet_address), "")>>
                        ELSE <<>>]
         IN  NormalLoop(normal, k + 1, wallet_address, Put(parsed_txs, tx.hash, row))

\* an internal record attached whoever its parties are
InternalTransfersAnyParty(tx, wallet_address) ==
    IF tx.value > 0
    THEN <<Transfer("NATIVE", tx.value,
                    IF Lower(tx.to) = wallet_address THEN "IN" ELSE "OUT",
                    "internal_transfer")>>
    ELSE <<>>

\* lines 75-92: what an internal record adds to the transfers of its parent
InternalTransfers(tx, wallet_address) ==
    LET is_receiver == Lower(tx.to) = wallet_address
        is_sender == Lower(tx.from) = wallet_address
    IN  IF tx.value > 0 /\ (is_receiver \/ is_sender)
        THEN <<Transfer("NATIVE", tx.value, IF is_receiver THEN "IN" ELSE "OUT",
                        "internal_transfer")>>
        ELSE <<>>

\* lines 68-92: the loop over the internal list, from position k on
RECURSIVE InternalLoop(_, _, _, _)
InternalLoop(internal, k, wallet_address, parsed_txs) ==
    IF k > Len(internal) THEN parsed_txs
    ELSE LET tx == internal[k] IN
         IF tx.hash \notin DOMAIN parsed_txs
         THEN InternalLoop(internal, k + 1, wallet_address, parsed_txs)
         ELSE InternalLoop(internal, k + 1, wallet_address,
                  [parsed_txs EXCEPT ![tx.hash].transfers =
                                         @ \o InternalTransfers(tx, wallet_address)])

\* lines 94-115: the loop over the ERC-20 list, from position k on
RECURSIVE Erc20Loop(_, _, _, _)
Erc20Loop(erc20, k, wallet_address, parsed_txs) ==
    IF k > Len(erc20) THEN parsed_txs
    ELSE LET tx == erc20[k] IN
         IF tx.hash \notin DOMAIN parsed_txs
         THEN Erc20Loop(erc20, k + 1, wallet_address, parsed_txs)
         ELSE Erc20Loop(erc20, k + 1, wallet_address,
                  [parsed_txs EXCEPT ![tx.hash].transfers =
                      Append(@, Transfer(Lower(tx.contractAddress), tx.value,
                                         DirectionFrom(tx, wallet_address), ""))])

\* lines 13-117: parse_file on the content of the file
ParseFile(raw_data) ==
    IF ~raw_data.exists THEN EmptyDict
    ELSE LET wallet_address == Lower(raw_data.address) IN
         Erc20Loop(raw_data.erc20, 1, wallet_address,
             InternalLoop(raw_data.internal, 1, wallet_address,
                 NormalLoop(raw_data.normal, 1, wallet_address, EmptyDict)))

\* parser.parse_file(file_path) is called on the file and returns
ParseCall ==
    /\ parse.pc = "idle"
    /\ parse' = [parse EXCEPT !.pc = "returned", !.parsed_txs = ParseFile(parse.raw_data)]
    /\ UNCHANGED <<clock, price_vars, registry_vars, raw_file, fetch, app>>

\* a file of RawFiles is on disk, parse_file has not been called
InitParse ==
    /\ clock = 1
    /\ price_cache = EmptyDict
    /\ price_file = EmptyDict
    /\ gen = [c \in Callers |-> IdleGen]
    /\ reg = ColdRegistry
    /\ res = [x \in Resolvers |-> IdleCall]
    /\ raw_file = NoRawFile
    /\ fetch = IdleFetch
    /\ app = IdleApp
    /\ parse \in {[IdleParse EXCEPT !.raw_data = raw_data] : raw_data \in RawFiles}

NextParse == ParseCall

SpecParse == InitParse /\ [][NextParse]_vars

----------------------------------------------------------------------------
(* Properties of get_price_batches *)

IsYield(e, sources) == e.kind = "yield" /\ e.source \in sources
FetchSources == {"api", "stale_cache"}

\* the position of tid in the list s (0 when absent)
RECURSIVE PosIn(_, _, _)
PosIn(s, tid, k) ==
    IF k > Len(s) THEN 0 ELSE IF s[k] = tid THEN k ELSE PosIn(s, tid, k + 1)

\* the number (from 0) of the chunk of to_fetch that holds tid
ChunkNo(to_fetch, tid) == (PosIn(to_fetch, tid, 1) - 1) \div chunk_size

\* the chunk numbers of the ids of a batch
BatchChunks(to_fetch, e) == {ChunkNo(to_fetch, tid) : tid \in DOMAIN e.data}

\* the number of chunks of a list of n ids
NumChunks(n) == (n + chunk_size - 1) \div chunk_size

\* the events of a kind in a log
Count(ev, kind) == Cardinality({k \in 1..Len(ev) : ev[k].kind = kind})

\* C1: within one call the 'cache' batch comes before every request and every
\* 'api' or 'stale_cache' batch; each of those batches holds ids of one chunk
\* only, and they come in the order of their chunks, at most one per chunk.
C1_BatchOrder ==
    \A c \in Callers :
        LET ev == gen[c].events
            tf == gen[c].to_fetch
        IN  /\ \A j, k \in 1..Len(ev) :
                   (/\ IsYield(ev[j], {"cache"})
                    /\ (ev[k].kind = "request" \/ IsYield(ev[k], FetchSources)))
                   => j < k
            /\ \A j \in 1..Len(ev) :
                   IsYield(ev[j], FetchSources)
                   => /\ DOMAIN ev[j].data \subseteq SeqSet(tf)
                      /\ Cardinality(BatchChunks(tf, ev[j])) = 1
            /\ \A j, k \in 1..Len(ev) :
                   (IsYield(ev[j], FetchSources) /\ IsYield(ev[k], FetchSources) /\ j < k)
                   => \A a \in BatchChunks(tf, ev[j]), b \in BatchChunks(tf, ev[k]) : a < b

\* a finished call that yielded a cache batch, then an api batch and a
\* stale_cache batch for two chunks
C1_Witness ==
    \E c \in Callers :
        LET ev == gen[c].events
        IN  /\ gen[c].pc = "done"
            /\ \E j, k, l \in 1..Len(ev) :
                   /\ IsYield(ev[j], {"cache"})
                   /\ IsYield(ev[k], {"api"})
                   /\ IsYield(ev[l], {"stale_cache"})

\* the step in which caller c's generator starts
StartStep(c) == gen[c].pc = "idle" /\ gen'[c].pc # "idle"

\* the step in which caller c's generator gets the response it awaits
ReceiveStep(c) == gen[c].pc = "await_get" /\ gen'[c].pc # "await_get"

\* the ids of the request a generator is awaiting
AwaitedChunk(g) == g.events[Len(g.events)].ids

\* the batches a step of caller c hands to the consumer
NewYields(c) ==
    LET ev == gen'[c].events
    IN  {ev[k] : k \in {n \in (Len(gen[c].events) + 1)..Len(ev) : ev[n].kind = "yield"}}

\* the requests of a log that carry tid
RequestsOf(ev, tid) ==
    {k \in 1..Len(ev) : ev[k].kind = "request" /\ tid \in SeqSet(ev[k].ids)}

C2_PartitionStep ==
    \A c \in Callers :
        StartStep(c) =>
            LET g == gen'[c] IN
            \A tid \in SeqSet(g.token_ids) :
                IF tid \in DOMAIN price_cache /\ clock - price_cache[tid].ts < PRICE_TTL
                THEN /\ tid \notin SeqSet(g.to_fetch)
                     /\ IsYield(g.events[1], {"cache"})
                     /\ tid \in DOMAIN g.events[1].data
                     /\ g.events[1].data[tid] = price_cache[tid].price
                ELSE Cardinality({k \in 1..Len(g.to_fetch) : g.to_fetch[k] = tid}) = 1

C2_Requests ==
    \A c \in Callers :
        LET g == gen[c] IN
        /\ \A k \in 1..Len(g.events) :
               g.events[k].kind = "request" => SeqSet(g.events[k].ids) \subseteq SeqSet(g.to_fetch)
        /\ \A tid \in SeqSet(g.to_fetch) :
               /\ Cardinality(RequestsOf(g.events, tid)) <= 1
               /\ g.pc = "done" => Cardinality(RequestsOf(g.events, tid)) = 1

\* C2: at the partition an id whose cache entry is younger than the TTL goes
\* into the 'cache' batch and not into to_fetch, and every other id (no
\* entry, or an entry of age >= TTL) is put into to_fetch once; the requests of
\* the call carry ids of to_fetch only, each in exactly one request.
C2_FreshNeverFetched == [][C2_PartitionStep]_vars /\ []C2_Requests

\* a finished call that started when bitcoin's entry was exactly TTL old and
\* ethereum's younger: bitcoin was requested, ethereum served from the cache
C2_Witness ==
    \E c \in Callers :
        LET g == gen[c] IN
        /\ g.pc = "done"
        /\ "bitcoin" \in DOMAIN price_cache
        /\ g.now - price_cache["bitcoin"].ts = PRICE_TTL
        /\ RequestsOf(g.events, "bitcoin") # {}
        /\ IsYield(g.events[1], {"cache"})
        /\ "ethereum" \in DOMAIN g.events[1].data

C3_RateLimitedStep ==
    \A c \in Callers :
        (ReceiveStep(c) /\ gen'[c].resp.status = 429) =>
            LET known == SeqSet(AwaitedChunk(gen[c])) \cap DOMAIN price_cache IN
            /\ price_cache' = price_cache
            /\ price_file' = price_file
            /\ IF known = {} THEN NewYields(c) = {}
               ELSE NewYields(c) =
                        {YieldEv("stale_cache", [tid \in known |-> price_cache[tid].price])}

C3_NoSecondBatch ==
    \A c \in Callers :
        gen[c].pc \in {"yield_stale", "sleep_429", "sleep_rate"} => NewYields(c) = {}

\* C3: the step that receives a 429 leaves the price cache and its file as
\* they are and yields one 'stale_cache' batch holding the cached price of
\* exactly the chunk's ids that have a cache entry, or no batch when none has;
\* no other batch follows before the next request.
C3_StaleOnRateLimit == [][C3_RateLimitedStep /\ C3_NoSecondBatch]_vars

\* a 429 answered with a stale batch that leaves out an id of the chunk
C3_Witness ==
    \E c \in Callers :
        LET g == gen[c]
            e == g.events[Len(g.events)]
        IN  /\ g.pc = "yield_stale"
            /\ g.resp.status = 429
            /\ IsYield(e, {"stale_cache"})
            /\ DOMAIN e.data # SeqSet(ChunkAt(g.to_fetch, g.i))

\* the response is a failure other than a 429
FailedNot429(chunk, resp) ==
    \/ resp.status \notin {200, 429}
    \/ resp.status = 200 /\ ~Usable(chunk, resp)

\* C4: the step that receives a failure other than a 429 (a network error,
\* another status, a body that is malformed, also from its second id on)
\* yields no batch and leaves the price cache and its file as they were.
C4_FailureLeavesCache ==
    [][\A c \in Callers :
          (ReceiveStep(c) /\ FailedNot429(AwaitedChunk(gen[c]), gen'[c].resp)) =>
              /\ NewYields(c) = {}
              /\ price_cache' = price_cache
              /\ price_file' = price_file]_vars

C5_SuccessStep ==
    \A c \in Callers :
        (ReceiveStep(c) /\ gen'[c].resp.status = 200) =>
            LET chunk == AwaitedChunk(gen[c])
                body == gen'[c].resp.body
            IN  /\ Usable(chunk, gen'[c].resp) => NewYields(c) # {}
                /\ \A e \in NewYields(c) :
                       /\ e.source = "api"
                       /\ DOMAIN e.data = SeqSet(chunk)
                       /\ \A tid \in SeqSet(chunk) :
                              IF tid \in DOMAIN body
                              THEN LET usd == IF body[tid].kind = "usd"
                                              THEN body[tid].usd ELSE 0
                                   IN  /\ e.data[tid] = usd
                                       /\ tid \in DOMAIN price_cache'
                                       /\ price_cache'[tid] = [price |-> usd, ts |-> clock]
                              ELSE /\ e.data[tid] = 0
                                   /\ (tid \in DOMAIN price_cache') = (tid \in DOMAIN price_cache)
                                   /\ tid \in DOMAIN price_cache
                                          => price_cache'[tid] = price_cache[tid]

\* C5: the step that receives a usable 200 yields one 'api' batch whose keys
\* are the chunk's ids; an id the response holds carries its USD price (0.0
\* when the object has none) and gets the cache entry {that price, the time of
\* the step}; an id the response omits carries 0.0 and keeps its cache entry,
\* or its absence.
C5_ApiBatch == [][C5_SuccessStep]_vars

\* an api batch with a quoted price and a 0.0 for an omitted id whose old
\* cache entry is still there
C5_Witness ==
    \E c \in Callers :
        LET g == gen[c]
            e == g.events[Len(g.events)]
        IN  /\ g.pc = "yield_api"
            /\ \E a, b \in DOMAIN e.data :
                   /\ e.data[a] \in Prices
                   /\ a \in DOMAIN g.resp.body
                   /\ b \notin DOMAIN g.resp.body
                   /\ b \in DOMAIN price_cache
                   /\ e.data[b] = 0

\* a response that brings no fresh prices
FailedResponse(e) == e.kind = "response" /\ (e.status # 200 \/ ~e.usable)

\* the k-th request of a log
RECURSIVE NthRequest(_, _, _)
NthRequest(ev, n, k) ==
    IF ev[k].kind = "request"
    THEN IF n = 1 THEN ev[k] ELSE NthRequest(ev, n - 1, k + 1)
    ELSE NthRequest(ev, n, k + 1)

\* a step of caller c's generator once it has started
GenStep(c) ==
    \/ ResumeAfterCache(c)
    \/ \E resp \in Responses(ChunkAt(gen[c].to_fetch, gen[c].i)) : Receive(c, resp)
    \/ ResumeAfterApi(c)
    \/ ResumeAfterStale(c)
    \/ Wake429(c)
    \/ WakeRate(c)

\* C6: no failure of a chunk ends the generator with an exception or stops
\* it: a suspended generator can always be resumed, a finished one has sent
\* one request for every chunk, and when every response of the call was a
\* failure no batch other than 'cache' and 'stale_cache' ones was yielded.
C6_FailuresAreContained ==
    \A c \in Callers :
        LET g == gen[c]
            ev == g.events
        IN  /\ g.pc # "raised"
            /\ g.pc \notin {"idle", "done"} => ENABLED GenStep(c)
            /\ g.pc = "done" =>
                   /\ Count(ev, "request") = NumChunks(Len(g.to_fetch))
                   /\ Count(ev, "response") = NumChunks(Len(g.to_fetch))
                   /\ \A n \in 1..NumChunks(Len(g.to_fetch)) :
                          \A tid \in SeqSet(NthRequest(ev, n, 1).ids) :
                              ChunkNo(g.to_fetch, tid) = n - 1
            /\ (\A k \in 1..Len(ev) : ev[k].kind = "response" => FailedResponse(ev[k]))
                   => \A k \in 1..Len(ev) :
                          ev[k].kind = "yield" => ev[k].source \in {"cache", "stale_cache"}

\* a finished call whose first request met a network error and whose second
\* chunk was still requested and answered with fresh prices
C6_Witness ==
    \E c \in Callers :
        LET ev == gen[c].events IN
        /\ gen[c].pc = "done"
        /\ \E j, k, l \in 1..Len(ev) :
               /\ j < k /\ k < l
               /\ ev[j].kind = "response" /\ ev[j].status = 0
               /\ ev[k].kind = "request"
               /\ IsYield(ev[l], {"api"})

----------------------------------------------------------------------------
(* Properties of resolve_token *)

\* the step in which resolve_token is called by x
CallStep(x) == res[x].pc \in {"idle", "returned"} /\ clock' = clock

\* the step in which the call of x, on a known chain, reads the lookup map
\* (line 100): the call's first step when the snapshot is not stale, else the
\* step in which the refresh of the stale snapshot completes
LookupStep(x) ==
    /\ res'[x].chain_id \in DOMAIN chain_map
    /\ \/ CallStep(x) /\ res'[x].pc # "await_stale"
       \/ res[x].pc = "await_stale" /\ res'[x].pc # "await_stale"

\* the address of a call as the registry keys it, and its platform
KeyOf(call) == Lower(call.address)
PlatformOf(call) == chain_map[call.chain_id]

\* the address of the call is listed in the lookup map under its platform
Listed(lookup_map, call) ==
    /\ PlatformOf(call) \in DOMAIN lookup_map
    /\ KeyOf(call) \in DOMAIN lookup_map[PlatformOf(call)]

\* C7: a call whose address is in the lookup map it reads, under the platform
\* of its chain, returns the map's id, and the address is then neither in
\* the blacklist in memory nor in the blacklist file.
C7_ListedResolvesAndClears ==
    [][\A x \in Resolvers :
          (LookupStep(x) /\ Listed(reg'.lookup_map, res'[x])) =>
              /\ res'[x].pc = "returned"
              /\ res'[x].result = reg'.lookup_map[PlatformOf(res'[x])][KeyOf(res'[x])]
              /\ KeyOf(res'[x]) \notin DOMAIN reg'.missing_map
              /\ KeyOf(res'[x]) \notin DOMAIN reg'.missing_file]_vars

\* the address of the call is unlisted and has a blacklist entry younger than
\* the TTL when resolve_token is called
LiveEntryAtCall(x) ==
    /\ CallStep(x)
    /\ res'[x].chain_id \in DOMAIN chain_map
    /\ ~Listed(reg.lookup_map, res'[x])
    /\ KeyOf(res'[x]) \in DOMAIN reg.missing_map
    /\ clock - reg.missing_map[KeyOf(res'[x])] < MISSING_TTL

\* C8 as stated: whatever the age of the snapshot, such a call returns
\* unpriceable and sends no request.
C8_LiveEntryNoRequest ==
    [][\A x \in Resolvers :
          LiveEntryAtCall(x) =>
              /\ res'[x].pc = "returned"
              /\ res'[x].result = None
              /\ res'[x].requests = 0]_vars

\* C8, amended: when the registry file exists and is at most a day old, a
\* call for an unlisted address with a blacklist entry younger than the TTL
\* returns unpriceable, sends no request and changes nothing in the registry,
\* whether the refresh cooldown has elapsed or not.
C8_LiveEntryNoRequestWhenFresh ==
    [][\A x \in Resolvers :
          (/\ LiveEntryAtCall(x)
           /\ reg.file_exists
           /\ clock - reg.file_mtime <= CACHE_DURATION) =>
              /\ res'[x].pc = "returned"
              /\ res'[x].result = None
              /\ res'[x].requests = 0
              /\ reg' = reg]_vars

\* a call answered from the blacklist, without a request, for an entry made
\* when the cooldown had already elapsed
C8_Witness ==
    \E x \in Resolvers :
        /\ res[x].pc = "returned"
        /\ res[x].line = 114
        /\ res[x].requests = 0
        /\ KeyOf(res[x]) \in DOMAIN reg.missing_map
        /\ reg.missing_map[KeyOf(res[x])] - reg.last_refresh_ts > REFRESH_COOLDOWN

\* C9: a call that finds its address unlisted and its blacklist entry older
\* than the TTL asks the upstream at least once before it returns, whatever
\* the cooldown.
C9_ExpiredEntryRetried ==
    [][\A x \in Resolvers :
          (/\ LookupStep(x)
           /\ ~Listed(reg'.lookup_map, res'[x])
           /\ KeyOf(res'[x]) \in DOMAIN reg.missing_map
           /\ clock - reg.missing_map[KeyOf(res'[x])] >= MISSING_TTL) =>
              res'[x].requests >= 1]_vars

\* C10: a call on a known chain for an address that is neither listed nor
\* blacklisted, made less than the cooldown after the last refresh, sends no
\* request, returns unpriceable and adds to the blacklist, in memory and in
\* the file, the lowercased address with the time of the call.
C10_CooldownBlacklists ==
    [][\A x \in Resolvers :
          (/\ CallStep(x)
           /\ res'[x].chain_id \in DOMAIN chain_map
           /\ ~Listed(reg.lookup_map, res'[x])
           /\ KeyOf(res'[x]) \notin DOMAIN reg.missing_map
           /\ clock - reg.last_refresh_ts < REFRESH_COOLDOWN) =>
              /\ res'[x].pc = "returned"
              /\ res'[x].result = None
              /\ res'[x].requests = 0
              /\ reg'.missing_map = Put(reg.missing_map, KeyOf(res'[x]), clock)
              /\ reg'.missing_file = reg'.missing_map
              /\ reg'.lookup_map = reg.lookup_map
              /\ reg'.last_refresh_ts = reg.last_refresh_ts]_vars

\* the call for 0xAA returned unpriceable without a request during the
\* cooldown, and 0xaa is in the blacklist file with the time of the call
C10_Witness ==
    \E x \in Resolvers :
        /\ res[x].pc = "returned"
        /\ res[x].line = 145
        /\ res[x].requests = 0
        /\ res[x].address = "0xAA"
        /\ "0xaa" \in DOMAIN reg.missing_file
        /\ reg.missing_file["0xaa"] = clock
        /\ clock - reg.last_refresh_ts < REFRESH_COOLDOWN

\* the addresses the lookup map resolves, on any platform
Resolvable(lookup_map) == UNION {DOMAIN lookup_map[p] : p \in DOMAIN lookup_map}

\* C11: in every reachable state no address is both a key of the blacklist
\* and resolvable in the lookup map.
C11_BlacklistDisjointFromLookup ==
    DOMAIN reg.missing_map \cap Resolvable(reg.lookup_map) = {}

\* C12: a call with a chain id that chain_map does not know returns
\* unpriceable at once: no request is sent, and the blacklist, its file, the
\* lookup map and the refresh timestamp stay as they are.
C12_UnknownChainTouchesNothing ==
    [][\A x \in DOMAIN res :
          (CallStep(x) /\ res'[x].chain_id \notin {"1", "137", "42161", "56"}) =>
              /\ res'[x].pc = "returned"
              /\ res'[x].result = None
              /\ res'[x].requests = 0
              /\ reg' = reg]_vars

\* a call on the unknown chain 999 returned although the snapshot is stale
\* and the address neither listed nor blacklisted
C12_Witness ==
    \E x \in DOMAIN res :
        /\ res[x].pc = "returned"
        /\ res[x].chain_id = "999"
        /\ res[x].line = 88
        /\ IsCacheStale(reg, clock)
        /\ KeyOf(res[x]) \notin DOMAIN reg.missing_map

\* the coin-list responses that make a refresh fail: a network error, a
\* status other than 200, a body that does not parse, a list that cannot be
\* indexed to its end
FailedListResponses ==
    {resp \in ListResponses :
        \/ resp.status # 200
        \/ ~resp.parsed
        \/ BuildFastLookup(resp.data).raised}

\* C13: a refresh that fails leaves the lookup map, the registry file and the
\* refresh timestamp as they were, and the call that triggered it returns
\* what the data loaded before yields.
C13_FailedRefreshKeepsSnapshot ==
    [][\A x \in DOMAIN res, resp \in FailedListResponses :
          (StaleRefreshDone(x, resp) \/ ForcedRefreshDone(x, resp)) =>
              /\ reg'.lookup_map = reg.lookup_map
              /\ reg'.file_exists = reg.file_exists
              /\ reg'.file_mtime = reg.file_mtime
              /\ reg'.file_data = reg.file_data
              /\ reg'.last_refresh_ts = reg.last_refresh_ts
              /\ res'[x].pc = "returned" =>
                     res'[x].result =
                         LookupGet(reg.lookup_map, PlatformOf(res[x]), KeyOf(res[x]))]_vars

\* the registry file is missing or older than the freshness window
SnapshotOld == ~reg.file_exists \/ clock - reg.file_mtime > CACHE_DURATION

C17_RefreshFirst ==
    \A x \in DOMAIN res :
        (CallStep(x) /\ res'[x].chain_id \in DOMAIN chain_map /\ SnapshotOld) =>
            /\ res'[x].pc = "await_stale"
            /\ res'[x].requests = 1
            /\ reg' = reg

C17_LookupInNewMap ==
    \A x \in DOMAIN res, resp \in ListResponses \ FailedListResponses :
        StaleRefreshDone(x, resp) =>
            /\ reg'.lookup_map = BuildFastLookup(resp.data).map
            /\ reg'.file_data = resp.data
            /\ reg'.last_refresh_ts = clock
            /\ Listed(BuildFastLookup(resp.data).map, res[x]) =>
                   /\ res'[x].pc = "returned"
                   /\ res'[x].result =
                          BuildFastLookup(resp.data).map[PlatformOf(res[x])][KeyOf(res[x])]

\* C17: a call that finds the registry snapshot older than a day (or
\* missing) sends the coin-list request before it reads the lookup map; when
\* that refresh succeeds the new map is published and the lookup of the same
\* call is made in it, so an address the new list names resolves on that call.
C17_StaleSnapshotRefreshedFirst == [][C17_RefreshFirst /\ C17_LookupInNewMap]_vars

\* a call that began with a snapshot older than a day, refreshed it and
\* resolved its address in the map it had just published
C17_Witness ==
    \E x \in DOMAIN res :
        /\ res[x].pc = "returned"
        /\ res[x].line = 106
        /\ res[x].requests = 1
        /\ reg.file_mtime = clock
        /\ clock > 100000
        /\ Listed(reg.lookup_map, res[x])

\* the step in which the forced refresh awaited by x completes
ForcedDoneStep(x) == res[x].pc = "await_forced" /\ res'[x].pc # "await_forced"

C18_ForcesOne ==
    \A x \in DOMAIN res :
        (/\ LookupStep(x)
         /\ ~Listed(reg'.lookup_map, res'[x])
         /\ ~(/\ KeyOf(res'[x]) \in DOMAIN reg.missing_map
              /\ clock - reg.missing_map[KeyOf(res'[x])] < MISSING_TTL)
         /\ clock - reg'.last_refresh_ts > REFRESH_COOLDOWN) =>
            /\ res'[x].pc = "await_forced"
            /\ res'[x].requests = (IF CallStep(x) THEN 0 ELSE res[x].requests) + 1

C18_Recheck ==
    \A x \in DOMAIN res :
        ForcedDoneStep(x) =>
            /\ res'[x].pc = "returned"
            /\ res'[x].requests = res[x].requests
            /\ IF Listed(reg'.lookup_map, res[x])
               THEN /\ res'[x].result = reg'.lookup_map[PlatformOf(res[x])][KeyOf(res[x])]
                    /\ KeyOf(res[x]) \notin DOMAIN reg'.missing_map
               ELSE /\ res'[x].result = None
                    /\ KeyOf(res[x]) \in DOMAIN reg'.missing_map
                    /\ reg'.missing_map[KeyOf(res[x])] = clock
                    /\ reg'.missing_file = reg'.missing_map

\* C18: a call whose address is not in the lookup map and has no live
\* blacklist entry, made more than the cooldown after the last refresh, sends
\* one forced coin-list request and looks the address up once more when it
\* completes: listed in the map the refresh left, it returns the id and
\* blacklists nothing; else it returns unpriceable and blacklists the address
\* with the current time, in memory and in the file.
C18_ForcedRefreshRechecks == [][C18_ForcesOne /\ C18_Recheck]_vars

\* the generator of caller c is suspended at a yield, a request or a sleep
Suspended(g) ==
    g.pc \in {"yield_cache", "await_get", "yield_api", "yield_stale", "sleep_429", "sleep_rate"}

C15_TimestampsNeverDecrease ==
    [][\A tid \in DOMAIN price_cache :
          /\ tid \in DOMAIN price_cache'
          /\ price_cache'[tid].ts >= price_cache[tid].ts]_vars

\* caller 1 began first and got its prices last: its batch has just replaced
\* the bitcoin entry that caller 2, begun later, had written in between
C15_Witness ==
    /\ DOMAIN gen = ConcCallers
    /\ gen[1].pc = "yield_api"
    /\ "bitcoin" \in DOMAIN gen[1].events[Len(gen[1].events)].data
    /\ gen[1].now < gen[2].now
    /\ \E k \in 1..Len(gen[2].events) :
           /\ IsYield(gen[2].events[k], {"api"})
           /\ "bitcoin" \in DOMAIN gen[2].events[k].data
    /\ "bitcoin" \in DOMAIN price_cache
    /\ price_cache["bitcoin"].ts > gen[2].now

\* the lookup maps that index a whole coin list
WholeMaps == {BuildFastLookup(d).map : d \in StoredLists}

\* C14: with the startup refresh and the refreshes of two calls in flight,
\* every step leaves the lookup map either as it was or as the complete index
\* of a coin list: no call ever reads a map indexed in part.
C14_LookupMapSwappedWhole ==
    [][reg'.lookup_map = reg.lookup_map \/ reg'.lookup_map \in WholeMaps]_vars

\* a step of the resolve_token call of x
ResolveStep(x) ==
    \/ \E chain_id \in ChainIds, address \in Addresses : ResolveCall(x, chain_id, address)
    \/ \E resp \in ListResponses : StaleRefreshDone(x, resp)
    \/ \E resp \in ListResponses : ForcedRefreshDone(x, resp)

\* C19: a call that returns an asset id, from the lookup or from the re-check
\* after the forced refresh, leaves its address out of the blacklist, also
\* when another call for the address ran between its awaits.
C19_ResolvedNotBlacklisted ==
    [][\A x \in ConcResolvers :
          (ResolveStep(x) /\ res'[x].pc = "returned" /\ res'[x].result # None) =>
              KeyOf(res'[x]) \notin DOMAIN reg'.missing_map]_vars

\* the coin list in the registry file cannot be indexed
SnapshotMalformed == reg.file_exists /\ BuildFastLookup(reg.file_data).raised

\* C16: a start that finds a malformed registry file on disk does not raise:
\* the registry comes up with an empty lookup map and serves its calls.
C16_MalformedSnapshotStartsCold ==
    [][(Restart /\ SnapshotMalformed) =>
          /\ \A x \in DOMAIN res : res'[x].pc = "idle"
          /\ reg'.lookup_map = EmptyDict]_vars

\* the n-th chunk (from 1) of to_fetch
NthChunk(to_fetch, n) == ChunkAt(to_fetch, (n - 1) * chunk_size)

C21_OneRequestPerChunk ==
    \A c \in DOMAIN gen :
        LET g == gen[c]
            ev == g.events
            sent == Count(ev, "request")
        IN  /\ sent <= NumChunks(Len(g.to_fetch))
            /\ \A n \in 1..sent :
                   /\ NthRequest(ev, n, 1).ids = NthChunk(g.to_fetch, n)
                   /\ Len(NthRequest(ev, n, 1).ids) \in 1..chunk_size
            /\ g.pc = "done" => sent = NumChunks(Len(g.to_fetch))
            /\ (g.pc # "idle" /\ g.to_fetch = <<>>) =>
                   /\ sent = 0
                   /\ g.pc \in {"yield_cache", "done"}
                   /\ g.pc = "done" =>
                          \A k \in 1..Len(ev) : k = 1 /\ IsYield(ev[k], {"cache"})

C21_EndsAfterCacheBatch ==
    \A c \in DOMAIN gen :
        (gen[c].pc = "yield_cache" /\ gen[c].to_fetch = <<>> /\ gen'[c] # gen[c])
            => gen'[c].pc = "done"

C21_Terminates == \A c \in Callers : (gen[c].pc # "idle") ~> (gen[c].pc = "done")

\* C21: a call sends one request for each chunk of to_fetch, in order, each
\* of at most chunk_size ids and none twice, so ceil(|to_fetch| / chunk_size)
\* in all; with nothing to fetch it sends none and ends right after the
\* 'cache' batch (at once when the input is empty); and every call that
\* starts ends, provided the consumer keeps asking and requests and sleeps
\* complete.
C21_TerminatesWithOneRequestPerChunk ==
    /\ []C21_OneRequestPerChunk
    /\ [][C21_EndsAfterCacheBatch]_vars
    /\ C21_Terminates

\* a finished call that sent two requests, the first answered 429 and the
\* second lost to a network error
C21_Witness ==
    \E c \in Callers :
        LET ev == gen[c].events IN
        /\ gen[c].pc = "done"
        /\ Count(ev, "request") = 2
        /\ \E j, k \in 1..Len(ev) :
               /\ j < k
               /\ ev[j].kind = "response" /\ ev[j].status = 429
               /\ ev[k].kind = "response" /\ ev[k].status = 0

\* the positions of the log ev at which a request was sent
RequestPositions(ev) == {k \in 1..Len(ev) : ev[k].kind = "request"}

\* positions j < k of two successive requests
Successive(ev, j, k) ==
    /\ j \in RequestPositions(ev) /\ k \in RequestPositions(ev) /\ j < k
    /\ \A m \in RequestPositions(ev) : ~(j < m /\ m < k)

\* the outcome of the request at position j: the status of the response that
\* follows it in the log
OutcomeOf(ev, j) == ev[j + 1].status

\* C22: in the log of one call, the request of every chunk but the first
\* comes right after the inter-request sleep (RATE_LIMIT_DELAY), whether the
\* chunk before was answered 200, 429 or failed; no inter-request sleep is
\* started once the request of the last chunk is out; and after a 429
\* response the backoff (BACKOFF_DELAY) is slept before any later request and
\* before the call ends.
C22_DelayBetweenChunks ==
    \A c \in DOMAIN gen :
        LET g == gen[c]
            ev == g.events
        IN  /\ \A j, k \in 1..Len(ev) :
                   Successive(ev, j, k) =>
                       /\ ev[k - 1] = SleepEv(RATE_LIMIT_DELAY)
                       /\ ev[j + 1].kind = "response"
                       /\ OutcomeOf(ev, j) = 429 =>
                              \E m \in (j + 2)..(k - 2) : ev[m] = SleepEv(BACKOFF_DELAY)
            /\ \A k \in 1..Len(ev) :
                   ev[k] = SleepEv(RATE_LIMIT_DELAY) =>
                       Cardinality({j \in RequestPositions(ev) : j < k})
                           < NumChunks(Len(g.to_fetch))
            /\ \A k \in 1..Len(ev) :
                   (ev[k].kind = "response" /\ ev[k].status = 429
                        /\ g.pc \in {"sleep_rate", "done"})
                       => \E m \in (k + 1)..Len(ev) : ev[m] = SleepEv(BACKOFF_DELAY)

\* a finished call of two chunks whose first request was answered 429, a
\* stale batch going out before the backoff, and whose second was answered 200
C22_Witness ==
    \E c \in Callers :
        LET ev == gen[c].events IN
        /\ gen[c].pc = "done"
        /\ \E j, k \in RequestPositions(ev) :
               /\ Successive(ev, j, k)
               /\ OutcomeOf(ev, j) = 429 /\ OutcomeOf(ev, k) = 200
               /\ IsYield(ev[j + 2], {"stale_cache"})

\* the positions of the log ev at which a batch was handed to the consumer
YieldPositions(ev) == {k \in 1..Len(ev) : ev[k].kind = "yield"}

\* C23: within one call no id is a key of two yielded batches, whether or
\* not the input list names it twice, and every key of a yielded batch is an
\* id of the input list.
C23_EachIdInOneBatch ==
    \A c \in DOMAIN gen :
        LET g == gen[c]
            ev == g.events
        IN  \A j \in YieldPositions(ev) :
                /\ DOMAIN ev[j].data \subseteq SeqSet(g.token_ids)
                /\ \A k \in YieldPositions(ev) :
                       j # k => DOMAIN ev[j].data \cap DOMAIN ev[k].data = {}

\* a finished call whose input names its first id twice and which yielded
\* three batches, one of them pricing that id
C23_Witness ==
    \E c \in Callers :
        LET g == gen[c]
            ev == g.events
        IN  /\ g.pc = "done"
            /\ Len(g.token_ids) > Cardinality(SeqSet(g.token_ids))
            /\ Cardinality(YieldPositions(ev)) = 3
            /\ \E j \in YieldPositions(ev) : g.token_ids[1] \in DOMAIN ev[j].data

\* C24: when a resolve_token call has returned, at whatever line, the
\* blacklist file holds exactly the entries of the blacklist in memory.
C24_BlacklistFileMirrorsMemory ==
    \A x \in DOMAIN res :
        res[x].pc = "returned" => reg.missing_file = reg.missing_map

----------------------------------------------------------------------------
(* Properties of fetch_all_txs *)

\* the response left the category without new transactions: it failed or
\* listed none
NothingNew(resp) == resp.status # "1" \/ resp.result = <<>>

\* while a call runs the file still holds what the call loaded: every request
\* it has sent starts at the stored last block + 1 of its category, or at 0
\* when the file holds no transaction of the category
C26_StartsAfterStored ==
    \A k \in 1..Len(fetch.requests) :
        LET cat == Categories[k] IN
        fetch.requests[k].startblock =
            IF fetch.loaded[cat] = <<>> THEN 0 ELSE fetch.loaded.last_blocks[cat] + 1

\* the stored last block of a category never decreases
C26_LastBlockMonotonic ==
    \A k \in 1..Len(Categories) :
        raw_file'.data.last_blocks[Categories[k]] >= raw_file.data.last_blocks[Categories[k]]

\* when the call has returned, a category whose sync failed or listed
\* nothing is stored as it was loaded
C26_NothingNewKeeps ==
    fetch.pc = "returned" =>
        \A k \in 1..Len(Categories) :
            LET cat == Categories[k] IN
            NothingNew(fetch.responses[k]) =>
                /\ raw_file.data[cat] = fetch.loaded[cat]
                /\ raw_file.data.last_blocks[cat] = fetch.loaded.last_blocks[cat]

\* C26: across the fetch_all_txs calls for one wallet and chain, every
\* category is requested from its stored last block + 1 (from 0 when none of
\* its transactions is stored), its stored last block never decreases, and a
\* sync that fails or lists no transaction leaves its stored list and last
\* block as they were.
C26_IncrementalSync ==
    /\ []C26_StartsAfterStored
    /\ [][C26_LastBlockMonotonic]_vars
    /\ []C26_NothingNewKeeps

----------------------------------------------------------------------------
(* Properties of parse_file *)

\* the hashes of the file's normal list
HashesOf(normal) == {normal[k].hash : k \in 1..Len(normal)}

\* the internal records of the file that belong in the transfers of the
\* transaction h: those of hash h with a positive value and the wallet as
\* sender or receiver
InternalOf(raw_data, h) ==
    SelectSeq(raw_data.internal,
              LAMBDA tx : /\ tx.hash = h
                          /\ tx.value > 0
                          /\ Lower(raw_data.address) \in {Lower(tx.from), Lower(tx.to)})

\* the ERC-20 records of the file of hash h
Erc20Of(raw_data, h) == SelectSeq(raw_data.erc20, LAMBDA tx : tx.hash = h)

\* the transfers of a transaction that came from internal records, and
\* those that came from ERC-20 records
InternalIn(transfers) == SelectSeq(transfers, LAMBDA t : t.type = "internal_transfer")
Erc20In(transfers) == SelectSeq(transfers, LAMBDA t : t.token_address # "NATIVE")

\* C27: the output of parse_file has one transaction for each hash of the
\* file's normal list and no other, so every transfer hangs on a normal
\* transaction and records of another hash are skipped; the internal
\* transfers of a transaction are, in order, the internal records of its hash
\* with a positive value and the wallet as sender or receiver, with direction
\* IN when the wallet is the receiver and OUT otherwise; its ERC-20 transfers
\* are the ERC-20 records of its hash.
C27_TransfersHangOnNormalTxs ==
    (parse.pc = "returned" /\ parse.raw_data.exists) =>
        LET raw_data == parse.raw_data
            parsed_txs == parse.parsed_txs
        IN  /\ DOMAIN parsed_txs = HashesOf(raw_data.normal)
            /\ \A h \in DOMAIN parsed_txs :
                   LET got == InternalIn(parsed_txs[h].transfers)
                       want == InternalOf(raw_data, h)
                   IN  /\ Len(got) = Len(want)
                       /\ \A k \in 1..Len(got) :
                              /\ got[k].amount_raw = want[k].value
                              /\ got[k].direction =
                                     IF Lower(want[k].to) = Lower(raw_data.address)
                                     THEN "IN" ELSE "OUT"
                       /\ Len(Erc20In(parsed_txs[h].transfers)) = Len(Erc20Of(raw_data, h))

\* a parsed file whose internal record, sent by the wallet, hangs on its
\* normal transaction as OUT and whose ERC-20 record of another hash is
\* skipped
C27_Witness ==
    /\ parse.pc = "returned"
    /\ \E h \in DOMAIN parse.parsed_txs :
           \E k \in 1..Len(parse.parsed_txs[h].transfers) :
               /\ parse.parsed_txs[h].transfers[k].type = "internal_transfer"
               /\ parse.parsed_txs[h].transfers[k].direction = "OUT"
    /\ Len(parse.raw_data.erc20) = 1
    /\ parse.raw_data.erc20[1].hash \notin DOMAIN parse.parsed_txs

----------------------------------------------------------------------------
(* Properties of analyze_portfolio *)

\* C25: in the response, unique_token_seen is the sum of
\* valid_assets_identified and spam_tokens_blocked, whatever contracts the
\* history touched and whatever the registry held.
C25_CountsAddUp ==
    app.pc = "responded" =>
        app.stats.unique_token_seen =
            app.stats.valid_assets_identified + app.stats.spam_tokens_blocked

====
